---------------------------- MODULE Spec2Model ----------------------------
(***************************************************************************)
(* A model of the IronLicensing client (src/src/client.rs), its transport  *)
(* (src/src/transport.rs), its value types (src/src/types.rs) and the      *)
(* process-wide client of src/src/lib.rs.                                  *)
(*                                                                         *)
(* Option<T> is modelled as a sequence: <<>> is None, <<x>> is Some(x).    *)
(* Each thread runs one call at a time; a call is a sequence of steps, one *)
(* per lock acquisition, guarded assignment and network round trip.        *)
(***************************************************************************)
EXTENDS Integers, Sequences, FiniteSets, TLC

VARIABLES
    current_license,   \* LicenseClient.current_license: Option<License>
    license_key,       \* LicenseClient.license_key: Option<String>
    lic_lock,          \* the RwLock around current_license: who holds it
    key_lock,          \* the RwLock around license_key: who holds it
    pc,                \* per thread: where in its call it is
    call,              \* per thread: the call in progress, or the last one
    mode,              \* which run this is (fixed by the initial state)
    everSuccess,       \* history: a transport call has returned a success
    global,            \* lib.rs GLOBAL_CLIENT: the OnceCell, empty or a client
    idfile,            \* ~/.ironlicensing/machine_id: absent or its content
    made,              \* how many clients the process runs have built
    rpc,               \* per thread: where in its construction it is
    rcall              \* per thread: its last construction or registry call

regVars == <<global, idfile, made, rpc, rcall>>

vars == <<current_license, license_key, lic_lock, key_lock, pc, call, mode,
          everSuccess, regVars>>

None == <<>>
Some(x) == <<x>>

-----------------------------------------------------------------------------
(* Bounds and input domains                                                *)

\* The longest feature list a server response carries.
MaxFeatures == 2

\* Transport::validate / activate: the preview is the first 10 bytes.
PreviewLen == 10

Threads == {"t1", "t2"}

\* LicenseStatus, by its serde (snake_case) names.
LicenseStatus ==
    {"valid", "expired", "suspended", "revoked", "invalid", "trial",
     "trial_expired", "not_activated", "unknown"}

LicenseType == {"perpetual", "subscription", "trial"}

FeatureKeys == {"premium", "export"}

\* Feature: key and enabled (name, description, metadata are carried along
\* untouched by every operation and are left out). The features a server
\* sends: one key enabled or disabled, another key enabled.
Feat(k, e) == [key |-> k, enabled |-> e]
Feature == {Feat("premium", TRUE), Feat("premium", FALSE), Feat("export", TRUE)}

RECURSIVE SeqsUpTo(_, _)
SeqsUpTo(S, n) ==
    IF n = 0 THEN {<<>>}
    ELSE LET shorter == SeqsUpTo(S, n - 1)
         IN  shorter \cup {Append(s, x) : s \in shorter, x \in S}

FeatureLists == SeqsUpTo(Feature, MaxFeatures)

\* The keys a License can carry.
LicKeys == {"KEY1", "KEY2-0123456789"}

\* The keys a caller passes: the two above and one whose tenth byte falls
\* inside a two-byte character.
ReqKeys == LicKeys \cup {"ABCDEFGHI(e-acute)"}

\* The UTF-8 width of each character of a key, in order.
KeyChars(k) ==
    CASE k = "KEY1" -> <<1, 1, 1, 1>>
      [] k = "KEY2-0123456789" -> <<1, 1, 1, 1, 1, 1, 1, 1, 1, 1, 1, 1, 1, 1, 1>>
      [] k = "ABCDEFGHI(e-acute)" -> <<1, 1, 1, 1, 1, 1, 1, 1, 1, 2>>
      [] OTHER -> <<>>

Emails == {"a@example.com"}
MachineNames == {"box"}

Lic(k, s, ty, fs) ==
    [key |-> k, status |-> s, license_type |-> ty, features |-> fs]

\* The licenses a server answers with in a single-threaded run: every
\* status, every type, every feature list and every key, each varied on its
\* own around one base license.
Licenses ==
    {Lic("KEY1", s, "perpetual", <<>>) : s \in LicenseStatus}
    \cup {Lic("KEY1", "valid", ty, <<>>) : ty \in LicenseType}
    \cup {Lic("KEY1", "valid", "perpetual", fs) : fs \in FeatureLists}
    \cup {Lic(k, "valid", "perpetual", <<>>) : k \in LicKeys}

\* The licenses a server answers with when threads interleave or when the
\* wire outcome is recorded.
FewLicenses ==
    {Lic("KEY1", "valid", "perpetual", <<Feat("premium", TRUE)>>),
     Lic("KEY2-0123456789", "trial", "trial", <<>>)}

Sequential == mode \in {"seq", "wire", "regseq", "shop"}

InputLicenses == IF mode = "seq" THEN Licenses ELSE FewLicenses

\* The license keys a caller passes.
InputKeys == IF mode = "live" THEN ReqKeys \ {"KEY2-0123456789"} ELSE ReqKeys

\* The machine names a caller passes to activate_with_name (None: activate).
InputNames ==
    IF mode \in {"conc", "live"} THEN {None} ELSE {None} \cup {Some(n) : n \in MachineNames}

\* The feature keys a caller asks about.
InputFeatureKeys == IF mode \in {"conc", "live"} THEN {"premium"} ELSE FeatureKeys

-----------------------------------------------------------------------------
(* types.rs                                                                *)

\* LicenseResult (activations and cached are carried along untouched).
LicenseResultOf(v, l, e) == [valid |-> v, license |-> l, error |-> e]

\* LicenseResult::failure
Failure(text) == LicenseResultOf(FALSE, None, Some(text))

\* License::has_feature, a bug: any feature of that key counts.
RECURSIVE LicenseHasFeatureAnyFlag(_, _)
LicenseHasFeatureAnyFlag(fs, feature_key) ==
    IF fs = <<>> THEN FALSE
    ELSE IF Head(fs).key = feature_key THEN TRUE
    ELSE LicenseHasFeatureAnyFlag(Tail(fs), feature_key)

\* License::has_feature: features.iter().any(|f| f.key == k && f.enabled),
\* on the feature list fs.
RECURSIVE LicenseHasFeature(_, _)
LicenseHasFeature(fs, feature_key) ==
    IF fs = <<>> THEN FALSE
    ELSE IF Head(fs).key = feature_key /\ Head(fs).enabled THEN TRUE
    ELSE LicenseHasFeature(Tail(fs), feature_key)

\* License::get_feature, a bug: the last feature of that key is returned.
RECURSIVE LicenseGetFeatureLast(_, _)
LicenseGetFeatureLast(fs, feature_key) ==
    IF fs = <<>> THEN None
    ELSE LET later == LicenseGetFeatureLast(Tail(fs), feature_key)
         IN  IF later # None THEN later
             ELSE IF Head(fs).key = feature_key THEN Some(Head(fs))
             ELSE None

\* License::get_feature: features.iter().find(|f| f.key == k).
RECURSIVE LicenseGetFeature(_, _)
LicenseGetFeature(fs, feature_key) ==
    IF fs = <<>> THEN None
    ELSE IF Head(fs).key = feature_key THEN Some(Head(fs))
    ELSE LicenseGetFeature(Tail(fs), feature_key)

-----------------------------------------------------------------------------
(* transport.rs: what the wire can do and how post turns it into a result  *)

\* Texts of errors. Those of reqwest and serde_json are their to_string().
NetErrTexts == {"error sending request"}
ServerErrTexts == {"not found"}
ParseErrNotJson == "expected value at line 1 column 1"
ParseErrEof == "EOF while parsing a value at line 1 column 0"
ParseErrNoValid == "missing field valid"
ParseErrBadLicense == "invalid type for field license"
ParseErrBadError == "invalid type for field error"
RequestFailed == "Request failed"

\* A response body. Garbage is a body that is no JSON object, EmptyText the
\* empty text. A JSON object is known by the three fields the parsers look
\* at:
\*   valid:        "absent", "true" or "false"
\*   licenseShape: "absent" (or null), "object" (license holds it), or
\*                 "malformed" (present, but no License)
\*   errorShape:   "absent", "null", "nonstring", or "string" (error holds it)
Garbage == [json |-> FALSE, empty |-> FALSE]
EmptyText == [json |-> FALSE, empty |-> TRUE]
JsonBodies ==
    {b \in [json : {TRUE},
            valid : {"absent", "true", "false"},
            licenseShape : {"absent", "object", "malformed"},
            license : {None} \cup {Some(l) : l \in InputLicenses},
            errorShape : {"absent", "null", "nonstring", "string"},
            error : {None} \cup {Some(e) : e \in ServerErrTexts}] :
        /\ (b.licenseShape = "object") <=> (b.license # None)
        /\ (b.errorShape = "string") <=> (b.error # None)}
Bodies == {Garbage, EmptyText} \cup JsonBodies

StatusCodes == {200, 204, 404}

\* What send() gives: Err(e), or Ok(resp) with a status and a body; body is
\* what resp.text() gives, Some(text) or None when reading it fails.
Outcomes ==
    {[kind |-> "err", text |-> e] : e \in NetErrTexts}
    \cup {[kind |-> "resp", status |-> s, body |-> b] :
              s \in StatusCodes, b \in {None} \cup {Some(x) : x \in Bodies}}

\* resp.text().unwrap_or_default()
Text(outcome) == IF outcome.body = None THEN EmptyText ELSE outcome.body[1]

\* A JSON body with these fields.
Body(valid, license, error) ==
    [json |-> TRUE, valid |-> valid,
     licenseShape |-> IF license = None THEN "absent" ELSE "object",
     license |-> license,
     errorShape |-> IF error = None THEN "absent" ELSE "string",
     error |-> error]

Resp(status, body) == [kind |-> "resp", status |-> status, body |-> Some(body)]

\* The outcomes a run draws from when it does not record the wire: one or
\* more of each kind the client tells apart.
TypicalOutcomes ==
    {[kind |-> "err", text |-> e] : e \in NetErrTexts}
    \cup {Resp(200, Body("true", Some(l), None)) : l \in InputLicenses}
    \cup {Resp(200, Body("false", Some(l), Some(e))) : l \in FewLicenses, e \in ServerErrTexts}
    \cup {Resp(404, Body("true", Some(l), None)) : l \in FewLicenses}
    \cup {Resp(200, Body("false", None, Some(e))) : e \in ServerErrTexts}
    \cup {Resp(404, Body("absent", None, Some(e))) : e \in ServerErrTexts}
    \cup {Resp(200, Body("true", None, None)), Resp(200, Garbage), Resp(404, Garbage),
          [kind |-> "resp", status |-> 200, body |-> None]}

\* The outcomes drawn from when threads interleave: one of each kind.
FewOutcomes ==
    {[kind |-> "err", text |-> e] : e \in NetErrTexts}
    \cup {Resp(200, Body("true", Some(l), None)) : l \in FewLicenses}
    \cup {Resp(200, Body("false", None, Some(e))) : e \in ServerErrTexts}
    \cup {Resp(404, Garbage)}

\* The outcomes drawn from where only the order of steps matters: a request
\* that fails and one that succeeds.
LiveOutcomes ==
    {[kind |-> "err", text |-> e] : e \in NetErrTexts}
    \cup {Resp(200, Body("true", Some(Lic("KEY1", "valid", "perpetual", <<>>)), None))}

InputOutcomes ==
    IF mode = "wire" THEN Outcomes
    ELSE IF mode = "seq" THEN TypicalOutcomes
    ELSE IF mode = "live" THEN LiveOutcomes
    ELSE FewOutcomes

\* StatusCode::is_success
IsSuccess(status) == status >= 200 /\ status <= 299

\* serde_json::from_str::<LicenseResult>: Ok(result) as <<"ok", result>>, or
\* Err(e) as <<"err", e.to_string()>>.
ParseLicenseResult(body) ==
    IF ~body.json THEN <<"err", IF body.empty THEN ParseErrEof ELSE ParseErrNotJson>>
    ELSE IF body.valid = "absent" THEN <<"err", ParseErrNoValid>>
    ELSE IF body.licenseShape = "malformed" THEN <<"err", ParseErrBadLicense>>
    ELSE IF body.errorShape = "nonstring" THEN <<"err", ParseErrBadError>>
    ELSE <<"ok", LicenseResultOf(body.valid = "true", body.license, body.error)>>

\* serde_json::from_str::<ErrorResponse>: the error string, or None when the
\* body does not parse as {error: string}.
ParseErrorResponse(body) ==
    IF ~body.json THEN None
    ELSE IF body.errorShape # "string" THEN None
    ELSE body.error

\* Transport::post, a bug: the body is parsed whatever the status.
PostIgnoringStatus(outcome) ==
    IF outcome.kind = "err" THEN Failure(outcome.text)
    ELSE LET parsed == ParseLicenseResult(Text(outcome))
         IN  IF parsed[1] = "ok" THEN parsed[2] ELSE Failure(parsed[2])

\* Transport::post
Post(outcome) ==
    IF outcome.kind = "err" THEN Failure(outcome.text)
    ELSE IF IsSuccess(outcome.status)
    THEN LET parsed == ParseLicenseResult(Text(outcome))
         IN  IF parsed[1] = "ok" THEN parsed[2] ELSE Failure(parsed[2])
    ELSE LET e == ParseErrorResponse(Text(outcome))
         IN  Failure(IF e = None THEN RequestFailed ELSE e[1])

\* Transport::deactivate, a bug: a 2xx answer counts only with a JSON body.
TransportDeactivateParsesBody(outcome) ==
    IF outcome.kind = "err" THEN FALSE
    ELSE IsSuccess(outcome.status) /\ Text(outcome).json

\* Transport::deactivate: Ok(resp) => resp.status().is_success(), Err => false.
TransportDeactivate(outcome) ==
    IF outcome.kind = "err" THEN FALSE ELSE IsSuccess(outcome.status)

\* The byte length of a key.
RECURSIVE SumWidths(_)
SumWidths(ws) == IF ws = <<>> THEN 0 ELSE Head(ws) + SumWidths(Tail(ws))
Utf8Len(k) == SumWidths(KeyChars(k))

\* str::is_char_boundary: byte index i starts a character or ends the text.
IsCharBoundary(k, i) ==
    \E n \in 0..Len(KeyChars(k)) : SumWidths(SubSeq(KeyChars(k), 1, n)) = i

Min(a, b) == IF a < b THEN a ELSE b

\* &license_key[..license_key.len().min(10)] panics unless the cut falls on a
\* character boundary.
PreviewPanics(k) == ~IsCharBoundary(k, Min(Utf8Len(k), PreviewLen))

-----------------------------------------------------------------------------
(* client.rs: the queries, as functions of the held license                *)

\* LicenseError::FeatureRequired(key)
FeatureRequired(k) == [variant |-> "FeatureRequired", key |-> k]

\* Result<()>: Ok(()) or Err(e)
Ok == [ok |-> TRUE, err |-> None]
Err(e) == [ok |-> FALSE, err |-> Some(e)]

\* LicenseClient::has_feature on the value read from current_license.
ClientHasFeature(cl, k) ==
    IF cl = None THEN FALSE ELSE LicenseHasFeature(cl[1].features, k)

\* LicenseClient::require_feature, a bug: the error names no feature.
ClientRequireFeatureNoKey(cl, k) ==
    IF ~ClientHasFeature(cl, k) THEN Err(FeatureRequired("")) ELSE Ok

\* LicenseClient::require_feature
ClientRequireFeature(cl, k) ==
    IF ~ClientHasFeature(cl, k) THEN Err(FeatureRequired(k)) ELSE Ok

\* LicenseClient::get_feature
ClientGetFeature(cl, k) ==
    IF cl = None THEN None ELSE LicenseGetFeature(cl[1].features, k)

\* LicenseClient::license
ClientLicense(cl) == cl

\* LicenseClient::status, a bug: the wrong default.
ClientStatusDefaultUnknown(cl) == IF cl = None THEN "unknown" ELSE cl[1].status

\* LicenseClient::status
ClientStatus(cl) == IF cl = None THEN "not_activated" ELSE cl[1].status

\* LicenseClient::is_licensed, a bug: any held license counts.
ClientIsLicensedAnyStatus(cl) == cl # None

\* LicenseClient::is_licensed
ClientIsLicensed(cl) ==
    IF cl = None THEN FALSE ELSE cl[1].status \in {"valid", "trial"}

\* LicenseClient::is_trial
ClientIsTrial(cl) ==
    IF cl = None THEN FALSE
    ELSE cl[1].status = "trial" \/ cl[1].license_type = "trial"

\* The queries and their arguments ("" where a query takes none).
Queries ==
    ({"has_feature", "require_feature", "get_feature"} \X InputFeatureKeys)
    \cup ({"license", "status", "is_licensed", "is_trial"} \X {""})

\* The queries a caller makes.
InputQueries ==
    IF mode = "live" THEN {<<"has_feature", "premium">>, <<"license", "">>}
    ELSE Queries

\* What query q with argument k answers when it reads cl.
QueryAnswer(q, k, cl) ==
    CASE q = "has_feature" -> ClientHasFeature(cl, k)
      [] q = "require_feature" -> ClientRequireFeature(cl, k)
      [] q = "get_feature" -> ClientGetFeature(cl, k)
      [] q = "license" -> ClientLicense(cl)
      [] q = "status" -> ClientStatus(cl)
      [] q = "is_licensed" -> ClientIsLicensed(cl)
      [] q = "is_trial" -> ClientIsTrial(cl)

-----------------------------------------------------------------------------
(* client.rs: the state-changing calls                                     *)

StoreOps == {"validate", "activate", "start_trial"}

\* The stored pair.
Store == [license |-> current_license, key |-> license_key]

\* History: the pair as a call found it, kept in single-threaded runs.
Snapshot == IF Sequential THEN Some(Store) ELSE None

\* History: what the wire did, kept whole when the run records the wire and
\* without the body in the other single-threaded runs.
Recorded(outcome) ==
    IF mode = "wire" \/ (mode = "seq" /\ outcome.kind = "err") THEN Some(outcome)
    ELSE IF mode = "seq" THEN Some([kind |-> "resp", status |-> outcome.status])
    ELSE None

NoCall ==
    [op |-> "none", arg |-> "", name |-> None, req |-> None, resp |-> None,
     ret |-> None, pre |-> None, back |-> None, since |-> None]

NewCall(op, arg, name) ==
    [op |-> op, arg |-> arg, name |-> name, req |-> None, resp |-> None,
     ret |-> None, pre |-> Snapshot, back |-> None, since |-> None]

\* The calls that take &self and only read: the queries, and machine_id,
\* get_tiers and start_purchase, which go to the transport.
ReadOnlyOps ==
    {"has_feature", "require_feature", "get_feature", "license", "status",
     "is_licensed", "is_trial", "machine_id", "get_tiers", "start_purchase"}

\* History: the pair as it was when the present run of read-only calls of
\* thread t began, kept in the runs of the purchase flow.
Since(t) ==
    IF mode # "shop" THEN None
    ELSE IF call[t].op \in ReadOnlyOps THEN call[t].since
    ELSE Some(Store)

\* History: the pair as deactivate found it when it read the key and when its
\* request came back, kept where threads interleave.
Flight == IF mode = "conc" THEN Some(Store) ELSE None

\* History: what Flight recorded is dropped once the call is past it.
Forget(c) == IF mode = "conc" THEN [c EXCEPT !.pre = None, !.back = None] ELSE c

\* Transport::get_hostname
HostName == "host"

\* The request bodies (the machine id and the platform are the same in all).
ValidateRequest(k) == [path |-> "/api/v1/validate", licenseKey |-> k]
ActivateRequest(k, name) ==
    [path |-> "/api/v1/activate", licenseKey |-> k,
     machineName |-> IF name = None THEN HostName ELSE name[1]]
DeactivateRequest(k) == [path |-> "/api/v1/deactivate", licenseKey |-> k]
TrialRequest(email) == [path |-> "/api/v1/trial", email |-> email]

\* validate / activate_with_name / start_trial, a bug: a license payload is
\* stored whatever the valid flag says.
ShouldStoreAnyPayload(result) == result.license # None

\* validate / activate_with_name / start_trial: if result.valid { if let
\* Some(license) = &result.license { ... } }
ShouldStore(result) == result.valid /\ result.license # None

\* What a call assigns to current_license, a bug: deactivate leaves it.
StoredLicenseDeactivateKeeps(c) ==
    IF c.op = "deactivate" THEN current_license ELSE Some(c.ret[1].license[1])

\* What a call in its write section assigns to current_license.
StoredLicense(c) ==
    IF c.op = "deactivate" THEN None ELSE Some(c.ret[1].license[1])

\* What a call assigns to license_key, a bug: deactivate leaves the key.
StoredKeyDeactivateKeeps(c) ==
    IF c.op = "deactivate" THEN license_key
    ELSE IF c.op = "start_trial" THEN Some(c.ret[1].license[1].key)
    ELSE Some(c.arg)

\* What a call assigns to license_key, a bug: validate and activate store
\* the key of the returned license.
StoredKeyFromLicense(c) ==
    IF c.op = "deactivate" THEN None ELSE Some(c.ret[1].license[1].key)

\* What a call in its write section assigns to license_key.
StoredKey(c) ==
    IF c.op = "deactivate" THEN None
    ELSE IF c.op = "start_trial" THEN Some(c.ret[1].license[1].key)
    ELSE Some(c.arg)

-----------------------------------------------------------------------------
(* client.rs: construction; transport.rs: the machine identity; lib.rs:    *)
(* the process-wide client                                                 *)

\* How many clients the runs of the process build in all.
MaxClients == 3

PublicKeys == {"", "pk_live"}
ProductSlugs == {"", "slug"}

\* error.rs: the variants construction and the registry return.
NotInitialized == [variant |-> "NotInitialized", key |-> ""]
PublicKeyRequired == [variant |-> "PublicKeyRequired", key |-> ""]
ProductSlugRequired == [variant |-> "ProductSlugRequired", key |-> ""]
Api(msg) == [variant |-> "Api", key |-> msg]
AlreadyInitialized == Api("Client already initialized")

\* LicenseClient::new, a bug: the product slug is not checked.
CheckOptionsKeyOnly(pk, slug) ==
    IF pk = "" THEN Err(PublicKeyRequired) ELSE Ok

\* LicenseClient::new: the two checks that come before Transport::new.
CheckOptions(pk, slug) ==
    IF pk = "" THEN Err(PublicKeyRequired)
    ELSE IF slug = "" THEN Err(ProductSlugRequired)
    ELSE Ok

\* Uuid::new_v4().to_string() as the n-th client built draws it: a text of
\* its own, free of whitespace. Texts are sequences of characters.
Uuid(n) == [i \in 1..n |-> "f"]

Whitespace == {" ", "\n", "\t"}

RECURSIVE TrimStart(_)
TrimStart(s) ==
    IF s # <<>> /\ Head(s) \in Whitespace THEN TrimStart(Tail(s)) ELSE s

RECURSIVE TrimEnd(_)
TrimEnd(s) ==
    IF s # <<>> /\ s[Len(s)] \in Whitespace
    THEN TrimEnd(SubSeq(s, 1, Len(s) - 1))
    ELSE s

\* str::trim, a bug: the last character goes with the trailing whitespace.
TrimCutsLast(s) ==
    LET r == TrimEnd(TrimStart(s))
    IN  IF r = <<>> THEN r ELSE SubSeq(r, 1, Len(r) - 1)

\* str::trim
Trim(s) == TrimEnd(TrimStart(s))

\* The identity file as the SDK client `owner` wrote it, and as another
\* program left it.
SdkFile(text, owner) == [text |-> text, by |-> "sdk", owner |-> owner]
OtherFile(text) == [text |-> text, by |-> "other", owner |-> 0]

\* What another program may leave in the identity file.
OtherTexts == {<<>>, <<"f", "\n">>, <<" ", "x", "\t">>}

\* fs::read_to_string(&id_path): the text, or an error when the file is
\* absent or cannot be read.
ReadToString(file, readable) ==
    IF file # None /\ readable THEN Some(file[1].text) ELSE None

\* Whether the file system lets a read or a write through.
FsOutcomes == IF mode = "regseq" THEN BOOLEAN ELSE {TRUE}

\* The LicenseClient that new returns: nothing held.
NewClient(inst, id) ==
    [inst |-> inst, machine_id |-> id,
     current_license |-> None, license_key |-> None]

\* LicenseClient::machine_id, a bug: the identity is resolved again.
ClientMachineIdFromFile(client) ==
    IF idfile = None THEN client.machine_id ELSE Trim(idfile[1].text)

\* LicenseClient::machine_id / Transport::machine_id
ClientMachineId(client) == client.machine_id

\* The results of construction and of the registry functions.
ROk == [ok |-> TRUE, err |-> None]
RErr(e) == [ok |-> FALSE, err |-> Some(e)]

\* get_client, a bug: an empty cell is not reported.
GetClientNeverFails(g) == ROk

\* get_client: GLOBAL_CLIENT.get().ok_or(LicenseError::NotInitialized)
GetClient(g) == IF g = None THEN RErr(NotInitialized) ELSE ROk

\* The functions of lib.rs that go through get_client.
ConvenienceOps ==
    {"validate", "activate", "activate_with_name", "deactivate", "start_trial",
     "has_feature", "require_feature", "get_feature", "license", "status",
     "is_licensed", "is_trial", "get_tiers", "start_purchase"}

GlobalOps ==
    IF mode = "regseq" THEN ConvenienceOps \cup {"get_client"}
    ELSE {"get_client", "validate", "has_feature"}

NoRegCall ==
    [op |-> "none", pk |-> "", slug |-> "", inst |-> 0, id |-> None,
     found |-> None, read |-> "none", wrote |-> "none", effects |-> {},
     client |-> None, ret |-> None, mid |-> None]

NewRegCall(op, pk, slug) ==
    [NoRegCall EXCEPT !.op = op, !.pk = pk, !.slug = slug]

RegInit ==
    /\ global = None
    /\ idfile = None
    /\ made = 0
    /\ rpc = [t \in Threads |-> "idle"]
    /\ rcall = [t \in Threads |-> NoRegCall]

\* parking_lot::RwLock: a writer needs the lock free, a reader needs no
\* writer.
Free == [writer |-> {}, readers |-> {}]
\* RwLock::write, a bug: readers do not keep a writer out.
CanWriteIgnoringReaders(l) == l.writer = {}
CanWrite(l) == l.writer = {} /\ l.readers = {}
CanRead(l) == l.writer = {}

Active == IF Sequential THEN {"t1"} ELSE Threads

Init ==
    /\ current_license = None
    /\ license_key = None
    /\ lic_lock = Free
    /\ key_lock = Free
    /\ pc = [t \in Threads |-> "idle"]
    /\ call = [t \in Threads |-> NoCall]
    /\ mode = "conc"
    /\ everSuccess = FALSE
    /\ RegInit

InitSeq ==
    /\ current_license = None
    /\ license_key = None
    /\ lic_lock = Free
    /\ key_lock = Free
    /\ pc = [t \in Threads |-> "idle"]
    /\ call = [t \in Threads |-> NoCall]
    /\ mode = "seq"
    /\ everSuccess = FALSE
    /\ RegInit

InitWire ==
    /\ current_license = None
    /\ license_key = None
    /\ lic_lock = Free
    /\ key_lock = Free
    /\ pc = [t \in Threads |-> "idle"]
    /\ call = [t \in Threads |-> NoCall]
    /\ mode = "wire"
    /\ everSuccess = FALSE
    /\ RegInit

\* Threads sharing one client, for what must eventually happen.
InitLive ==
    /\ current_license = None
    /\ license_key = None
    /\ lic_lock = Free
    /\ key_lock = Free
    /\ pc = [t \in Threads |-> "idle"]
    /\ call = [t \in Threads |-> NoCall]
    /\ mode = "live"
    /\ everSuccess = FALSE
    /\ RegInit

\* A process that has built no client yet, its threads using lib.rs.
InitReg ==
    /\ current_license = None
    /\ license_key = None
    /\ lic_lock = Free
    /\ key_lock = Free
    /\ pc = [t \in Threads |-> "idle"]
    /\ call = [t \in Threads |-> NoCall]
    /\ mode = "reg"
    /\ everSuccess = FALSE
    /\ RegInit

\* The same with one thread, a file system that can fail, other programs
\* writing the identity file, and restarts of the process.
InitRegSeq ==
    /\ current_license = None
    /\ license_key = None
    /\ lic_lock = Free
    /\ key_lock = Free
    /\ pc = [t \in Threads |-> "idle"]
    /\ call = [t \in Threads |-> NoCall]
    /\ mode = "regseq"
    /\ everSuccess = FALSE
    /\ RegInit

\* validate up to the request: Transport::validate cuts the preview and
\* post sends.
CallValidate(t, k) ==
    /\ pc[t] = "idle"
    /\ IF PreviewPanics(k)
       THEN /\ pc' = [pc EXCEPT ![t] = "panicked"]
            /\ call' = [call EXCEPT ![t] = NewCall("validate", k, None)]
       ELSE /\ pc' = [pc EXCEPT ![t] = "net"]
            /\ call' = [call EXCEPT ![t] =
                   [NewCall("validate", k, None) EXCEPT !.req = Some(ValidateRequest(k))]]
    /\ UNCHANGED <<current_license, license_key, lic_lock, key_lock, mode, everSuccess, regVars>>

\* activate / activate_with_name up to the request.
CallActivate(t, k, name) ==
    /\ pc[t] = "idle"
    /\ IF PreviewPanics(k)
       THEN /\ pc' = [pc EXCEPT ![t] = "panicked"]
            /\ call' = [call EXCEPT ![t] = NewCall("activate", k, name)]
       ELSE /\ pc' = [pc EXCEPT ![t] = "net"]
            /\ call' = [call EXCEPT ![t] =
                   [NewCall("activate", k, name) EXCEPT !.req = Some(ActivateRequest(k, name))]]
    /\ UNCHANGED <<current_license, license_key, lic_lock, key_lock, mode, everSuccess, regVars>>

\* start_trial up to the request.
CallStartTrial(t, email) ==
    /\ pc[t] = "idle"
    /\ pc' = [pc EXCEPT ![t] = "net"]
    /\ call' = [call EXCEPT ![t] =
           [NewCall("start_trial", email, None) EXCEPT !.req = Some(TrialRequest(email))]]
    /\ UNCHANGED <<current_license, license_key, lic_lock, key_lock, mode, everSuccess, regVars>>

\* The request of validate, activate or start_trial comes back: post makes
\* the result, and the call either goes on to store it or returns it.
NetReturn(t, outcome) ==
    /\ pc[t] = "net"
    /\ call[t].op \in StoreOps
    /\ LET result == Post(outcome)
       IN  /\ call' = [call EXCEPT ![t].ret = Some(result), ![t].resp = Recorded(outcome)]
           /\ pc' = [pc EXCEPT ![t] = IF ShouldStore(result) THEN "lock_license" ELSE "idle"]
           /\ everSuccess' = (everSuccess \/ (result.valid /\ result.license # None))
    /\ UNCHANGED <<current_license, license_key, lic_lock, key_lock, mode, regVars>>

\* self.current_license.write()
AcquireLicenseWrite(t) ==
    /\ pc[t] = "lock_license"
    /\ CanWrite(lic_lock)
    /\ lic_lock' = [lic_lock EXCEPT !.writer = {t}]
    /\ pc' = [pc EXCEPT ![t] = "write_license"]
    /\ UNCHANGED <<current_license, license_key, key_lock, call, mode, everSuccess, regVars>>

\* The assignment to current_license, a bug: the guard is bound to a name
\* and lives on while the call goes for the lock of license_key.
WriteLicenseKeepingGuard(t) ==
    /\ pc[t] = "write_license"
    /\ current_license' = StoredLicense(call[t])
    /\ pc' = [pc EXCEPT ![t] = "lock_key"]
    /\ call' = [call EXCEPT ![t] = Forget(@)]
    /\ UNCHANGED <<license_key, lic_lock, key_lock, mode, everSuccess, regVars>>

\* *guard = ...; the guard is dropped at the end of the statement.
WriteLicense(t) ==
    /\ pc[t] = "write_license"
    /\ current_license' = StoredLicense(call[t])
    /\ lic_lock' = [lic_lock EXCEPT !.writer = {}]
    /\ pc' = [pc EXCEPT ![t] = "lock_key"]
    /\ call' = [call EXCEPT ![t] = Forget(@)]
    /\ UNCHANGED <<license_key, key_lock, mode, everSuccess, regVars>>

\* self.license_key.write()
AcquireKeyWrite(t) ==
    /\ pc[t] = "lock_key"
    /\ CanWrite(key_lock)
    /\ key_lock' = [key_lock EXCEPT !.writer = {t}]
    /\ pc' = [pc EXCEPT ![t] = "write_key"]
    /\ UNCHANGED <<current_license, license_key, lic_lock, call, mode, everSuccess, regVars>>

\* *guard = ...; the guard is dropped and the call returns (deactivate: true).
WriteKey(t) ==
    /\ pc[t] = "write_key"
    /\ license_key' = StoredKey(call[t])
    /\ key_lock' = [key_lock EXCEPT !.writer = {}]
    /\ pc' = [pc EXCEPT ![t] = "idle"]
    /\ call' = IF call[t].op = "deactivate"
               THEN [call EXCEPT ![t].ret = Some(TRUE)]
               ELSE call
    /\ UNCHANGED <<current_license, lic_lock, mode, everSuccess, regVars>>

\* deactivate: self.license_key.read()
CallDeactivate(t) ==
    /\ pc[t] = "idle"
    /\ CanRead(key_lock)
    /\ key_lock' = [key_lock EXCEPT !.readers = @ \cup {t}]
    /\ pc' = [pc EXCEPT ![t] = "read_key"]
    /\ call' = [call EXCEPT ![t] = NewCall("deactivate", "", None)]
    /\ UNCHANGED <<current_license, license_key, lic_lock, mode, everSuccess, regVars>>

\* deactivate reading the key, a bug: if let Some(key) =
\* self.license_key.read().clone() { .. } keeps the guard through the body.
ReadKeyHoldingGuard(t) ==
    /\ pc[t] = "read_key"
    /\ IF license_key = None
       THEN /\ pc' = [pc EXCEPT ![t] = "idle"]
            /\ call' = [call EXCEPT ![t].ret = Some(FALSE)]
            /\ key_lock' = [key_lock EXCEPT !.readers = @ \ {t}]
       ELSE /\ pc' = [pc EXCEPT ![t] = "net"]
            /\ call' = [call EXCEPT ![t].arg = license_key[1],
                                    ![t].req = Some(DeactivateRequest(license_key[1])),
                                    ![t].pre = IF Sequential THEN @ ELSE Flight]
            /\ key_lock' = key_lock
    /\ UNCHANGED <<current_license, license_key, lic_lock, mode, everSuccess, regVars>>

\* deactivate: .clone() of the key, the guard is dropped; without a key the
\* call returns false, with one Transport::deactivate sends it.
ReadKey(t) ==
    /\ pc[t] = "read_key"
    /\ key_lock' = [key_lock EXCEPT !.readers = @ \ {t}]
    /\ IF license_key = None
       THEN /\ pc' = [pc EXCEPT ![t] = "idle"]
            /\ call' = [call EXCEPT ![t].ret = Some(FALSE)]
       ELSE /\ pc' = [pc EXCEPT ![t] = "net"]
            /\ call' = [call EXCEPT ![t].arg = license_key[1],
                                    ![t].req = Some(DeactivateRequest(license_key[1])),
                                    ![t].pre = IF Sequential THEN @ ELSE Flight]
    /\ UNCHANGED <<current_license, license_key, lic_lock, mode, everSuccess, regVars>>

\* deactivate: the request comes back; on true the call goes on to clear the
\* store, otherwise it returns false.
DeactivateReturn(t, outcome) ==
    /\ pc[t] = "net"
    /\ call[t].op = "deactivate"
    /\ IF TransportDeactivate(outcome)
       THEN /\ pc' = [pc EXCEPT ![t] = "lock_license"]
            /\ call' = [call EXCEPT ![t].resp = Recorded(outcome), ![t].back = Flight]
       ELSE /\ pc' = [pc EXCEPT ![t] = "idle"]
            /\ call' = [call EXCEPT ![t] =
                   Forget([@ EXCEPT !.resp = Recorded(outcome), !.ret = Some(FALSE)])]
    /\ UNCHANGED <<current_license, license_key, lic_lock, key_lock, mode, everSuccess, regVars>>

\* A query: self.current_license.read()
CallQuery(t, q, k) ==
    /\ pc[t] = "idle"
    /\ CanRead(lic_lock)
    /\ lic_lock' = [lic_lock EXCEPT !.readers = @ \cup {t}]
    /\ pc' = [pc EXCEPT ![t] = "read_license"]
    /\ call' = [call EXCEPT ![t] = [NewCall(q, k, None) EXCEPT !.since = Since(t)]]
    /\ UNCHANGED <<current_license, license_key, key_lock, mode, everSuccess, regVars>>

\* A query: the answer is computed from the value read, the guard is dropped
\* and the query returns.
ReadLicense(t) ==
    /\ pc[t] = "read_license"
    /\ lic_lock' = [lic_lock EXCEPT !.readers = @ \ {t}]
    /\ pc' = [pc EXCEPT ![t] = "idle"]
    /\ call' = [call EXCEPT ![t].ret = Some(QueryAnswer(call[t].op, call[t].arg, current_license))]
    /\ UNCHANGED <<current_license, license_key, key_lock, mode, everSuccess, regVars>>

Next ==
    \/ \E t \in Active, k \in InputKeys : CallValidate(t, k)
    \/ \E t \in Active, k \in InputKeys, name \in InputNames : CallActivate(t, k, name)
    \/ \E t \in Active, email \in Emails : CallStartTrial(t, email)
    \/ \E t \in Active, outcome \in InputOutcomes : NetReturn(t, outcome)
    \/ \E t \in Active : AcquireLicenseWrite(t)
    \/ \E t \in Active : WriteLicense(t)
    \/ \E t \in Active : AcquireKeyWrite(t)
    \/ \E t \in Active : WriteKey(t)
    \/ \E t \in Active : CallDeactivate(t)
    \/ \E t \in Active : ReadKey(t)
    \/ \E t \in Active, outcome \in InputOutcomes : DeactivateReturn(t, outcome)
    \/ \E t \in Active, qk \in InputQueries : CallQuery(t, qk[1], qk[2])
    \/ \E t \in Active : ReadLicense(t)

\* Threads sharing one client.
Spec == Init /\ [][Next]_vars

\* One thread issuing its calls one after another.
SpecSeq == InitSeq /\ [][Next]_vars

\* One thread, with what the wire did kept beside each result.
SpecWire == InitWire /\ [][Next]_vars

\* The request of thread t comes back.
TransportReturns(t) ==
    \E outcome \in InputOutcomes : NetReturn(t, outcome) \/ DeactivateReturn(t, outcome)

\* Threads sharing one client, where every thread that can take a step is
\* scheduled, every request comes back, and no thread waiting for a lock is
\* passed over for ever (parking_lot's RwLock is fair: a lock that keeps
\* becoming free is eventually given to a waiting thread).
SpecLive ==
    /\ InitLive
    /\ [][Next]_vars
    /\ \A t \in Threads :
           /\ WF_vars(TransportReturns(t))
           /\ WF_vars(WriteLicense(t))
           /\ WF_vars(WriteKey(t))
           /\ WF_vars(ReadKey(t))
           /\ WF_vars(ReadLicense(t))
           /\ SF_vars(AcquireLicenseWrite(t))
           /\ SF_vars(AcquireKeyWrite(t))

-----------------------------------------------------------------------------
(* Construction, the identity file and the process-wide client: the steps  *)

clientVars == <<current_license, license_key, lic_lock, key_lock, pc, call,
                mode, everSuccess>>

\* LicenseClient::new / with_credentials (op "new") and init /
\* init_with_options (op "init") up to Transport::new: empty credentials
\* return the configuration error at once.
CallNew(t, op, pk, slug) ==
    /\ rpc[t] = "idle"
    /\ LET checked == CheckOptions(pk, slug)
       IN  IF ~checked.ok
           THEN /\ rcall' = [rcall EXCEPT ![t] =
                       [NewRegCall(op, pk, slug) EXCEPT !.ret = Some(RErr(checked.err[1]))]]
                /\ UNCHANGED <<rpc, made>>
           ELSE /\ made < MaxClients
                /\ made' = made + 1
                /\ rcall' = [rcall EXCEPT ![t] =
                       [NewRegCall(op, pk, slug) EXCEPT !.inst = made + 1]]
                /\ rpc' = [rpc EXCEPT ![t] = "read_id"]
    /\ UNCHANGED <<global, idfile, clientVars>>

\* get_or_create_machine_id: the file is read; its trimmed text is the
\* identity, and without it a fresh UUID is drawn.
ReadIdFile(t, readable) ==
    /\ rpc[t] = "read_id"
    /\ LET text == ReadToString(idfile, readable)
       IN  IF text # None
           THEN /\ rcall' = [rcall EXCEPT ![t].id = Some(Trim(text[1])),
                                          ![t].found = idfile,
                                          ![t].read = "ok",
                                          ![t].effects = @ \cup {"read_file"}]
                /\ rpc' = [rpc EXCEPT ![t] = "built"]
           ELSE /\ rcall' = [rcall EXCEPT ![t].id = Some(Uuid(rcall[t].inst)),
                                          ![t].found = idfile,
                                          ![t].read = "err",
                                          ![t].effects = @ \cup {"read_file"}]
                /\ rpc' = [rpc EXCEPT ![t] = "write_id"]
    /\ UNCHANGED <<global, idfile, made, clientVars>>

\* get_or_create_machine_id: create_dir_all and fs::write, their errors
\* ignored.
WriteIdFile(t, writable) ==
    /\ rpc[t] = "write_id"
    /\ idfile' = IF writable THEN Some(SdkFile(rcall[t].id[1], rcall[t].inst))
                 ELSE idfile
    /\ rcall' = [rcall EXCEPT ![t].wrote = IF writable THEN "ok" ELSE "err",
                              ![t].effects = @ \cup {"create_dir", "write_file"}]
    /\ rpc' = [rpc EXCEPT ![t] = "built"]
    /\ UNCHANGED <<global, made, clientVars>>

\* LicenseClient::new returns Ok(Self { .. }) to its caller.
ReturnNew(t) ==
    /\ rpc[t] = "built"
    /\ rcall[t].op = "new"
    /\ rcall' = [rcall EXCEPT ![t].client = Some(NewClient(rcall[t].inst, rcall[t].id[1])),
                              ![t].ret = Some(ROk)]
    /\ rpc' = [rpc EXCEPT ![t] = "idle"]
    /\ UNCHANGED <<global, idfile, made, clientVars>>

\* init_with_options: GLOBAL_CLIENT.set(Arc::new(client)); a full cell
\* keeps its client and the call fails.
SetGlobal(t) ==
    /\ rpc[t] = "built"
    /\ rcall[t].op = "init"
    /\ LET client == NewClient(rcall[t].inst, rcall[t].id[1])
       IN  IF global = None
           THEN /\ global' = Some(client)
                /\ rcall' = [rcall EXCEPT ![t].client = Some(client),
                                          ![t].ret = Some(ROk)]
           ELSE /\ global' = global
                /\ rcall' = [rcall EXCEPT ![t].client = Some(client),
                                          ![t].ret = Some(RErr(AlreadyInitialized))]
    /\ rpc' = [rpc EXCEPT ![t] = "idle"]
    /\ UNCHANGED <<idfile, made, clientVars>>

\* get_client and the functions that begin with get_client()?: without a
\* client they fail, with one they go on with it.
CallGlobal(t, op) ==
    /\ rpc[t] = "idle"
    /\ rcall' = [rcall EXCEPT ![t] =
           [NewRegCall(op, "", "") EXCEPT !.client = IF GetClient(global).ok THEN global ELSE None,
                                          !.ret = Some(GetClient(global))]]
    /\ UNCHANGED <<global, idfile, made, rpc, clientVars>>

\* machine_id() on the client the thread got from new or from get_client.
CallMachineId(t) ==
    /\ rpc[t] = "idle"
    /\ rcall[t].op \in {"new", "get_client"}
    /\ rcall[t].client # None
    /\ rcall' = [rcall EXCEPT ![t].mid = Some(ClientMachineId(rcall[t].client[1]))]
    /\ UNCHANGED <<global, idfile, made, rpc, clientVars>>

\* Another program rewrites or removes the identity file.
ExternalEdit(file) ==
    /\ idfile # file
    /\ idfile' = file
    /\ UNCHANGED <<global, made, rpc, rcall, clientVars>>

\* The process ends between calls and starts again: the file stays.
Restart ==
    /\ \A t \in Active : rpc[t] = "idle"
    /\ \E t \in Active : rcall[t].op # "none"
    /\ global' = None
    /\ rcall' = [t \in Threads |-> NoRegCall]
    /\ UNCHANGED <<idfile, made, rpc, clientVars>>

NextReg ==
    \/ \E t \in Active, op \in {"new", "init"}, pk \in PublicKeys, slug \in ProductSlugs :
           CallNew(t, op, pk, slug)
    \/ \E t \in Active, readable \in FsOutcomes : ReadIdFile(t, readable)
    \/ \E t \in Active, writable \in FsOutcomes : WriteIdFile(t, writable)
    \/ \E t \in Active : ReturnNew(t)
    \/ \E t \in Active : SetGlobal(t)
    \/ \E t \in Active, op \in GlobalOps : CallGlobal(t, op)
    \/ \E t \in Active : CallMachineId(t)

NextRegSeq ==
    \/ NextReg
    \/ \E file \in {None} \cup {Some(OtherFile(text)) : text \in OtherTexts} : ExternalEdit(file)
    \/ Restart

\* Threads of one process constructing clients and using the process-wide
\* client.
SpecReg == InitReg /\ [][NextReg]_vars

\* One thread doing the same, across restarts, beside other programs.
SpecRegSeq == InitRegSeq /\ [][NextRegSeq]_vars

-----------------------------------------------------------------------------
(* The purchase flow: get_tiers, start_purchase and machine_id              *)

TierIds == {"pro"}
CheckoutUrls == {"https://pay.example/1"}
SessionIds == {"cs_1"}
ParseErrNoSuccess == "missing field success"
CheckoutFailed == "Checkout failed"

\* CheckoutResult
CheckoutResultOf(success, url, session, error) ==
    [success |-> success, checkout_url |-> url, session_id |-> session, error |-> error]

\* CheckoutResult::failure
CheckoutFailure(text) == CheckoutResultOf(FALSE, None, None, Some(text))

\* A response body of the tiers and checkout endpoints: Garbage, EmptyText,
\* or a JSON object known by the fields the parsers look at:
\*   success:      "absent", "true" or "false"
\*   checkoutUrl, sessionId: None (absent or null) or Some(text)
\*   errorShape:   "absent", "null", "nonstring", or "string" (error holds it)
\*   tiersShape:   "absent", "malformed" (present, but no list of
\*                 ProductTier), or "list" (tiers holds it, each ProductTier
\*                 known by its id)
ShopJsonBodies ==
    {b \in [json : {TRUE},
            success : {"absent", "true", "false"},
            checkoutUrl : {None} \cup {Some(u) : u \in CheckoutUrls},
            sessionId : {None} \cup {Some(i) : i \in SessionIds},
            errorShape : {"absent", "null", "nonstring", "string"},
            error : {None} \cup {Some(e) : e \in ServerErrTexts},
            tiersShape : {"absent", "malformed", "list"},
            tiers : SeqsUpTo(TierIds, 1)] :
        /\ (b.errorShape = "string") <=> (b.error # None)
        /\ (b.tiersShape # "list") => (b.tiers = <<>>)}
ShopBodies == {Garbage, EmptyText} \cup ShopJsonBodies

\* What send() gives to get_tiers and start_checkout.
ShopOutcomes ==
    {[kind |-> "err", text |-> e] : e \in NetErrTexts}
    \cup {[kind |-> "resp", status |-> s, body |-> b] :
              s \in StatusCodes, b \in {None} \cup {Some(x) : x \in ShopBodies}}

\* CheckoutRequest and the request of get_tiers.
CheckoutRequest(tier_id, email) ==
    [path |-> "/api/v1/checkout", tierId |-> tier_id, email |-> email]
TiersRequest == [path |-> "/api/v1/tiers"]

\* serde_json::from_str::<CheckoutResult>: Ok(result) as <<"ok", result>>, or
\* Err(e) as <<"err", e.to_string()>>. success is a bool without a default:
\* an object without it does not parse.
ParseCheckoutResult(body) ==
    IF ~body.json THEN <<"err", IF body.empty THEN ParseErrEof ELSE ParseErrNotJson>>
    ELSE IF body.errorShape = "nonstring" THEN <<"err", ParseErrBadError>>
    ELSE IF body.success = "absent" THEN <<"err", ParseErrNoSuccess>>
    ELSE <<"ok", CheckoutResultOf(body.success = "true", body.checkoutUrl,
                                  body.sessionId, body.error)>>

\* Transport::start_checkout
StartCheckout(outcome) ==
    IF outcome.kind = "err" THEN CheckoutFailure(outcome.text)
    ELSE IF IsSuccess(outcome.status)
    THEN LET parsed == ParseCheckoutResult(Text(outcome))
         IN  IF parsed[1] = "ok" THEN [parsed[2] EXCEPT !.success = TRUE]
             ELSE CheckoutFailure(parsed[2])
    ELSE LET e == ParseErrorResponse(Text(outcome))
         IN  CheckoutFailure(IF e = None THEN CheckoutFailed ELSE e[1])

\* resp.json::<TiersResponse>().map(|r| r.tiers).unwrap_or_default()
ParseTiers(body) ==
    IF body.json /\ body.tiersShape = "list" THEN body.tiers ELSE <<>>

\* Transport::get_tiers
GetTiers(outcome) ==
    IF outcome.kind = "err" THEN <<>>
    ELSE IF IsSuccess(outcome.status) THEN ParseTiers(Text(outcome))
    ELSE <<>>

\* The client the calls are made on, as new returned it.
ThisClient == NewClient(1, Uuid(1))

InitShop ==
    /\ current_license = None
    /\ license_key = None
    /\ lic_lock = Free
    /\ key_lock = Free
    /\ pc = [t \in Threads |-> "idle"]
    /\ call = [t \in Threads |-> NoCall]
    /\ mode = "shop"
    /\ everSuccess = FALSE
    /\ RegInit

\* get_tiers up to the request.
CallGetTiers(t) ==
    /\ pc[t] = "idle"
    /\ pc' = [pc EXCEPT ![t] = "net_tiers"]
    /\ call' = [call EXCEPT ![t] =
           [NewCall("get_tiers", "", None) EXCEPT !.req = Some(TiersRequest),
                                                  !.since = Since(t)]]
    /\ UNCHANGED <<current_license, license_key, lic_lock, key_lock, mode, everSuccess, regVars>>

\* get_tiers: the request comes back and the list is returned.
TiersReturn(t, outcome) ==
    /\ pc[t] = "net_tiers"
    /\ pc' = [pc EXCEPT ![t] = "idle"]
    /\ call' = [call EXCEPT ![t].resp = Some(outcome), ![t].ret = Some(GetTiers(outcome))]
    /\ UNCHANGED <<current_license, license_key, lic_lock, key_lock, mode, everSuccess, regVars>>

\* start_purchase up to the request.
CallStartPurchase(t, tier_id, email) ==
    /\ pc[t] = "idle"
    /\ pc' = [pc EXCEPT ![t] = "net_checkout"]
    /\ call' = [call EXCEPT ![t] =
           [NewCall("start_purchase", tier_id, None) EXCEPT
                !.req = Some(CheckoutRequest(tier_id, email)),
                !.since = Since(t)]]
    /\ UNCHANGED <<current_license, license_key, lic_lock, key_lock, mode, everSuccess, regVars>>

\* start_purchase coming back, a bug: a successful checkout drops the
\* license held.
PurchaseReturnDroppingLicense(t, outcome) ==
    /\ pc[t] = "net_checkout"
    /\ pc' = [pc EXCEPT ![t] = "idle"]
    /\ call' = [call EXCEPT ![t].resp = Some(outcome), ![t].ret = Some(StartCheckout(outcome))]
    /\ current_license' = IF StartCheckout(outcome).success THEN None ELSE current_license
    /\ UNCHANGED <<license_key, lic_lock, key_lock, mode, everSuccess, regVars>>

\* start_purchase: the request comes back and the CheckoutResult is returned.
PurchaseReturn(t, outcome) ==
    /\ pc[t] = "net_checkout"
    /\ pc' = [pc EXCEPT ![t] = "idle"]
    /\ call' = [call EXCEPT ![t].resp = Some(outcome), ![t].ret = Some(StartCheckout(outcome))]
    /\ UNCHANGED <<current_license, license_key, lic_lock, key_lock, mode, everSuccess, regVars>>

\* machine_id: self.transport.machine_id()
MachineId(t) ==
    /\ pc[t] = "idle"
    /\ call' = [call EXCEPT ![t] =
           [NewCall("machine_id", "", None) EXCEPT
                !.ret = Some(ClientMachineId(ThisClient)),
                !.since = Since(t)]]
    /\ UNCHANGED <<current_license, license_key, lic_lock, key_lock, pc, mode, everSuccess, regVars>>

NextShop ==
    \/ Next
    \/ \E t \in Active : CallGetTiers(t)
    \/ \E t \in Active, outcome \in ShopOutcomes : TiersReturn(t, outcome)
    \/ \E t \in Active, tier_id \in TierIds, email \in Emails : CallStartPurchase(t, tier_id, email)
    \/ \E t \in Active, outcome \in ShopOutcomes : PurchaseReturn(t, outcome)
    \/ \E t \in Active : MachineId(t)

\* One thread issuing its calls one after another, the purchase flow among
\* them.
SpecShop == InitShop /\ [][NextShop]_vars

-----------------------------------------------------------------------------
(* Properties                                                              *)

\* Thread t is between calls and has made one: call[t] is its last call.
Returned(t) == pc[t] = "idle" /\ call[t].op # "none"

\* The result of a validate, activate or start_trial is a success.
IsSuccessResult(r) == r.valid /\ r.license # None

\* The pair is whole: a License is held exactly when a key is.
PairWhole == (current_license = None) <=> (license_key = None)

\* The feature list of the held license holds an enabled feature of key k.
HeldEnabled(k) ==
    /\ current_license # None
    /\ \E i \in DOMAIN current_license[1].features :
           /\ current_license[1].features[i].key = k
           /\ current_license[1].features[i].enabled

\* The status field of the held license, NotActivated without one.
HeldStatus ==
    IF current_license = None THEN "not_activated" ELSE current_license[1].status

\* C1: in a single-threaded run, whenever a call has returned, a License is
\* stored if and only if a license key is stored.
C1_StoreInvariant ==
    (\A t \in Active : pc[t] = "idle") => PairWhole

\* C1 witness: a deactivate has returned true after a license was held, and
\* the store is empty again.
C1_Witness ==
    /\ Returned("t1") /\ call["t1"].op = "deactivate"
    /\ call["t1"].ret = Some(TRUE)
    /\ call["t1"].pre[1].license # None
    /\ current_license = None /\ license_key = None

\* C2: with threads sharing the client, whenever a reader can take both
\* locks the pair is whole, and it is whole when every call has returned.
C2_AtomicPair ==
    /\ (lic_lock.writer = {} /\ key_lock.writer = {}) => PairWhole
    /\ (\A t \in Active : pc[t] = "idle") => PairWhole

\* C2, its last clause alone: when every call of every thread has returned,
\* the pair is whole.
C2_QuiescentPair ==
    (\A t \in Active : pc[t] = "idle") => PairWhole

\* C3: in a single-threaded run, after validate(k) or activate(k) has
\* returned valid=true with a License L, the held license is L, the stored
\* key is k and status() is L.status; after start_trial has, the held license
\* is L and the stored key is L.key.
C3_SuccessTransition ==
    \A t \in Threads :
        (Returned(t) /\ call[t].op \in StoreOps /\ IsSuccessResult(call[t].ret[1])) =>
            LET L == call[t].ret[1].license[1]
            IN  /\ ClientLicense(current_license) = Some(L)
                /\ ClientStatus(current_license) = L.status
                /\ call[t].op \in {"validate", "activate"} => license_key = Some(call[t].arg)
                /\ call[t].op = "start_trial" => license_key = Some(L.key)

\* C3 witness: a validate has succeeded with a key other than the key of the
\* returned License, replacing another held license.
C3_Witness ==
    /\ Returned("t1") /\ call["t1"].op = "validate"
    /\ IsSuccessResult(call["t1"].ret[1])
    /\ call["t1"].ret[1].license[1].key # call["t1"].arg
    /\ call["t1"].pre[1].license # None
    /\ call["t1"].pre[1].license # call["t1"].ret[1].license

\* C4: in a single-threaded run, after validate, activate or start_trial has
\* returned a result that is not a success, the stored pair is what it was
\* when the call began.
C4_FailureUnchanged ==
    \A t \in Threads :
        (Returned(t) /\ call[t].op \in StoreOps /\ ~IsSuccessResult(call[t].ret[1])) =>
            Store = call[t].pre[1]

\* C4 witness: a call has returned valid=false with a License payload while
\* another license was held.
C4_Witness ==
    /\ Returned("t1") /\ call["t1"].op \in StoreOps
    /\ ~call["t1"].ret[1].valid
    /\ call["t1"].ret[1].license # None
    /\ call["t1"].pre[1].license # None
    /\ call["t1"].pre[1].license # call["t1"].ret[1].license

\* C5: in a single-threaded run, deactivate() returns true exactly when a key
\* was stored and the remote call made with that key reported success, and
\* then the store is empty and status() is NotActivated; otherwise it
\* returns false and the pair is unchanged, and without a stored key no
\* request is sent.
C5_DeactivateOutcome ==
    \A t \in Threads :
        (Returned(t) /\ call[t].op = "deactivate") =>
            LET c == call[t]
                remoteOk ==
                    /\ c.pre[1].key # None
                    /\ c.req = Some(DeactivateRequest(c.pre[1].key[1]))
                    /\ c.resp # None
                    /\ c.resp[1].kind = "resp"
                    /\ c.resp[1].status >= 200 /\ c.resp[1].status <= 299
            IN  /\ c.ret = Some(remoteOk)
                /\ remoteOk =>
                       /\ ClientLicense(current_license) = None
                       /\ license_key = None
                       /\ ClientStatus(current_license) = "not_activated"
                /\ ~remoteOk => Store = c.pre[1]
                /\ c.pre[1].key = None => c.req = None

\* C5 witness: a deactivate has returned true.
C5_Witness ==
    /\ Returned("t1") /\ call["t1"].op = "deactivate"
    /\ call["t1"].ret = Some(TRUE)
    /\ call["t1"].req # None

\* C6: has_feature(k) is false when no License is held, and otherwise true
\* exactly when the held License lists an enabled Feature of key k; this is
\* what a has_feature call returns.
C6_HasFeature ==
    /\ \A k \in FeatureKeys : ClientHasFeature(current_license, k) <=> HeldEnabled(k)
    /\ \A t \in Threads :
           (Returned(t) /\ call[t].op = "has_feature") =>
               call[t].ret = Some(HeldEnabled(call[t].arg))

\* C6 witness: has_feature has returned true for a key that the held License
\* lists first disabled and then enabled.
C6_Witness ==
    /\ Returned("t1") /\ call["t1"].op = "has_feature"
    /\ call["t1"].ret = Some(TRUE)
    /\ current_license # None
    /\ Len(current_license[1].features) = 2
    /\ current_license[1].features[1] = Feat(call["t1"].arg, FALSE)

\* C7: status() is the status of the held License, NotActivated without one;
\* is_licensed() is true exactly when a License is held whose status is
\* Valid or Trial.
C7_StatusAndIsLicensed ==
    /\ ClientStatus(current_license) = HeldStatus
    /\ ClientIsLicensed(current_license) <=>
           (current_license # None /\ HeldStatus \in {"valid", "trial"})
    /\ \A t \in Threads :
           /\ (Returned(t) /\ call[t].op = "status") => call[t].ret = Some(HeldStatus)
           /\ (Returned(t) /\ call[t].op = "is_licensed") =>
                  call[t].ret = Some(current_license # None /\ HeldStatus \in {"valid", "trial"})

\* C7 witness: is_licensed has returned false while a License is held.
C7_Witness ==
    /\ Returned("t1") /\ call["t1"].op = "is_licensed"
    /\ call["t1"].ret = Some(FALSE)
    /\ current_license # None
    /\ current_license[1].status = "expired"

\* The answer of query q with argument k on a client that is not licensed.
NotLicensedAnswer(q, k) ==
    CASE q = "has_feature" -> FALSE
      [] q = "require_feature" -> Err(FeatureRequired(k))
      [] q = "get_feature" -> None
      [] q = "license" -> None
      [] q = "status" -> "not_activated"
      [] q = "is_licensed" -> FALSE
      [] q = "is_trial" -> FALSE

\* C8: until a validate, activate or start_trial has come back with
\* valid=true and a License, no License is held, status() is NotActivated,
\* is_licensed() is false and has_feature(k) is false for every k; every
\* query that has returned gave the not-licensed answer, and no query aborts.
C8_NotLicensedUntilSuccess ==
    /\ ~everSuccess =>
           /\ ClientLicense(current_license) = None
           /\ ClientStatus(current_license) = "not_activated"
           /\ ~ClientIsLicensed(current_license)
           /\ \A k \in FeatureKeys : ~ClientHasFeature(current_license, k)
           /\ \A t \in Threads :
                  (Returned(t) /\ <<call[t].op, call[t].arg>> \in Queries) =>
                      call[t].ret = Some(NotLicensedAnswer(call[t].op, call[t].arg))
    /\ \A t \in Threads : pc[t] = "panicked" => call[t].op \in {"validate", "activate"}

\* C8 witness: before any success, a call has come back valid=false with a
\* License payload.
C8_Witness ==
    /\ ~everSuccess
    /\ Returned("t1") /\ call["t1"].op \in StoreOps
    /\ call["t1"].ret[1].license # None

\* C9: require_feature(k) returns FeatureRequired(k) exactly when
\* has_feature(k) is false on the same store, Ok otherwise, and leaves the
\* store as it found it.
C9_RequireFeature ==
    /\ \A k \in FeatureKeys :
           /\ ClientRequireFeature(current_license, k) = Err(FeatureRequired(k))
                  <=> ~ClientHasFeature(current_license, k)
           /\ ClientRequireFeature(current_license, k) = Ok
                  <=> ClientHasFeature(current_license, k)
    /\ \A t \in Threads :
           (Returned(t) /\ call[t].op = "require_feature") =>
               /\ call[t].ret =
                      Some(IF ClientHasFeature(current_license, call[t].arg)
                           THEN Ok ELSE Err(FeatureRequired(call[t].arg)))
               /\ Store = call[t].pre[1]

\* C9 witness: require_feature has failed for a key while the held License
\* enables another.
C9_Witness ==
    /\ Returned("t1") /\ call["t1"].op = "require_feature"
    /\ call["t1"].ret[1].err = Some(FeatureRequired("export"))
    /\ ClientHasFeature(current_license, "premium")

\* A body is of the shape {error: string}.
IsErrorBody(b) == b.json /\ b.errorShape = "string"

\* A body is of the shape of a LicenseResult.
IsResultBody(b) ==
    /\ b.json
    /\ b.valid # "absent"
    /\ b.licenseShape # "malformed"
    /\ b.errorShape # "nonstring"

\* C10: validate, activate and start_trial return a LicenseResult for every
\* outcome of the wire. When send fails it is valid=false, no License, the
\* error text of the failure; on a non-2xx status it is valid=false, no
\* License, the error string of an {error: string} body or else the generic
\* message, and the store is unchanged; on a 2xx status with a body that is
\* no LicenseResult it is valid=false, no License, the parse error text.
C10_TransportFailuresAreData ==
    \A t \in Threads :
        (Returned(t) /\ call[t].op \in StoreOps) =>
            LET r == call[t].ret[1]
                o == call[t].resp[1]
            IN  /\ DOMAIN r = {"valid", "license", "error"}
                /\ r.valid \in BOOLEAN
                /\ o.kind = "err" =>
                       r = [valid |-> FALSE, license |-> None, error |-> Some(o.text)]
                /\ (o.kind = "resp" /\ ~(o.status \in 200..299)) =>
                       /\ r = [valid |-> FALSE, license |-> None,
                               error |-> IF IsErrorBody(Text(o)) THEN Text(o).error
                                         ELSE Some(RequestFailed)]
                       /\ Store = call[t].pre[1]
                /\ (o.kind = "resp" /\ o.status \in 200..299 /\ ~IsResultBody(Text(o))) =>
                       /\ ~r.valid /\ r.license = None
                       /\ r.error = Some(ParseLicenseResult(Text(o))[2])
                       /\ r.error[1] \in {ParseErrNotJson, ParseErrEof, ParseErrNoValid,
                                          ParseErrBadLicense, ParseErrBadError}

\* C10 witness: a 404 whose body says valid=true and carries a License has
\* come back as the generic failure.
C10_Witness ==
    /\ Returned("t1") /\ call["t1"].op \in StoreOps
    /\ call["t1"].resp[1].kind = "resp"
    /\ call["t1"].resp[1].status = 404
    /\ Text(call["t1"].resp[1]).json
    /\ Text(call["t1"].resp[1]).valid = "true"
    /\ Text(call["t1"].resp[1]).license # None
    /\ call["t1"].ret[1].error = Some(RequestFailed)
    /\ current_license = None

\* Thread t is between construction or registry calls and has made one.
RegReturned(t) == rpc[t] = "idle" /\ rcall[t].op # "none"

\* C11: LicenseClient::new / with_credentials with an empty public key
\* returns PublicKeyRequired, with a public key and an empty product slug
\* ProductSlugRequired, and has then built no client, sent no request and
\* neither read nor created the identity file; with both non-empty it
\* returns a client that holds no License and no key, without a request.
C11_ConstructionFailsFast ==
    \A t \in Active :
        /\ "request" \notin rcall[t].effects
        /\ (RegReturned(t) /\ rcall[t].op = "new") =>
               LET c == rcall[t]
                   untouched == /\ c.client = None /\ c.inst = 0 /\ c.id = None
                                /\ c.effects = {} /\ c.read = "none" /\ c.wrote = "none"
               IN  /\ c.pk = "" => (c.ret = Some(RErr(PublicKeyRequired)) /\ untouched)
                   /\ (c.pk # "" /\ c.slug = "") =>
                          (c.ret = Some(RErr(ProductSlugRequired)) /\ untouched)
                   /\ (c.pk # "" /\ c.slug # "") =>
                          /\ c.ret = Some(ROk)
                          /\ c.client # None
                          /\ c.client[1].current_license = None
                          /\ c.client[1].license_key = None

\* C11 witness: new with a public key and an empty product slug has failed on
\* a machine where no client was ever built and no identity file exists.
C11_Witness ==
    /\ RegReturned("t1") /\ rcall["t1"].op = "new"
    /\ rcall["t1"].pk # "" /\ rcall["t1"].slug = ""
    /\ rcall["t1"].ret = Some(RErr(ProductSlugRequired))
    /\ idfile = None /\ made = 0

\* What C12 says of every step but of a later init: the cell, once set,
\* keeps its client; get_client hands out the client in the cell; a call
\* through get_client made on an empty cell fails with NotInitialized.
RegistrySteps ==
    /\ global # None => global' = global
    /\ \A t \in Active :
           (rcall'[t] # rcall[t] /\ rcall'[t].op \in ConvenienceOps \cup {"get_client"}) =>
               IF global = None
               THEN rcall'[t].ret = Some(RErr(NotInitialized)) /\ rcall'[t].client = None
               ELSE rcall'[t].ret = Some(ROk) /\ rcall'[t].client = global
    /\ \A t \in Active :
           (rcall'[t] # rcall[t] /\ rcall'[t].op = "init" /\ rcall'[t].ret = Some(ROk)) =>
               global = None /\ global' = rcall'[t].client

\* Thread t's init returns in this step, on a cell that was already set.
LaterInitReturns(t) ==
    /\ global # None
    /\ rcall'[t] # rcall[t]
    /\ rcall'[t].op = "init"
    /\ rcall'[t].ret # None

\* C12 as stated: the process-wide client is set at most once, at most one
\* init returns Ok, every init made after a successful one fails with the
\* already-initialized error and leaves the client in place, get_client
\* returns that client from then on, and every call through get_client
\* before the first successful init fails with NotInitialized.
C12_AsStated ==
    [][/\ RegistrySteps
       /\ \A t \in Active :
              LaterInitReturns(t) =>
                  rcall'[t].ret = Some(RErr(AlreadyInitialized))]_vars

\* C12 amended: the same, except that an init made after a successful one
\* fails with the configuration error when its public key or product slug is
\* empty, and with the already-initialized error otherwise.
C12_RegistryLifecycle ==
    [][/\ RegistrySteps
       /\ \A t \in Active :
              LaterInitReturns(t) =>
                  rcall'[t].ret =
                      IF CheckOptions(rcall'[t].pk, rcall'[t].slug).ok
                      THEN Some(RErr(AlreadyInitialized))
                      ELSE Some(RErr(CheckOptions(rcall'[t].pk, rcall'[t].slug).err[1]))]_vars

\* C12 witness: one thread's init has failed with the already-initialized
\* error after building a client of its own, and the other thread's
\* get_client has returned the client in the cell.
C12_Witness ==
    /\ global # None
    /\ RegReturned("t1") /\ rcall["t1"].op = "init"
    /\ rcall["t1"].ret = Some(RErr(AlreadyInitialized))
    /\ rcall["t1"].client # global
    /\ RegReturned("t2") /\ rcall["t2"].op = "get_client"
    /\ rcall["t2"].client = global

\* C13: with one thread, a resolution that finds no identity file draws an
\* identifier and, the file being writable, leaves it in the file; a
\* resolution that can read a file an earlier resolution wrote, in this run
\* of the process or in an earlier one, returns exactly the identifier that
\* one drew and writes nothing; machine_id() returns the identifier its
\* client was built with, whatever the file holds by then.
C13_MachineIdRoundTrip ==
    /\ (idfile # None /\ idfile[1].by = "sdk") =>
           idfile[1].text = Uuid(idfile[1].owner)
    /\ \A t \in Active :
           LET c == rcall[t]
           IN  /\ (c.op \in {"new", "init"} /\ c.id # None /\ c.found = None) =>
                      /\ c.id = Some(Uuid(c.inst))
                      /\ (rpc[t] # "write_id") => c.wrote \in {"ok", "err"}
               /\ (c.op \in {"new", "init"} /\ c.id # None /\ c.found # None
                       /\ c.read = "ok" /\ c.found[1].by = "sdk") =>
                      /\ c.id = Some(Uuid(c.found[1].owner))
                      /\ c.wrote = "none"
                      /\ c.effects = {"read_file"}
               /\ (c.op = "new" /\ c.client # None) =>
                      c.client[1].machine_id = c.id[1]
               /\ c.mid # None => c.mid = Some(c.client[1].machine_id)

\* C13 witness: a client was built from the file an earlier client wrote,
\* the file has changed since, and machine_id() has answered.
C13_Witness ==
    /\ RegReturned("t1") /\ rcall["t1"].op = "new"
    /\ rcall["t1"].found # None
    /\ rcall["t1"].found[1].by = "sdk"
    /\ rcall["t1"].found[1].owner # rcall["t1"].inst
    /\ rcall["t1"].read = "ok"
    /\ rcall["t1"].mid # None
    /\ idfile # rcall["t1"].found
    /\ idfile # None


\* Thread t holds one of the two locks.
HoldsLock(t) ==
    t \in lic_lock.writer \cup lic_lock.readers \cup key_lock.writer \cup key_lock.readers

\* What a successful call leaves in the store when nothing interferes.
Outcome(c) == [license |-> StoredLicense(c), key |-> StoredKey(c)]

\* Call c is a validate, activate, start_trial or deactivate that succeeded.
Succeeded(c) ==
    \/ c.op \in StoreOps /\ c.ret # None /\ IsSuccessResult(c.ret[1])
    \/ c.op = "deactivate" /\ c.ret = Some(TRUE)

\* C14: while threads run state-changing calls, the License does not change
\* under a query that holds its read lock, and the query answers from that
\* one value, which is a whole License a server sent or no License.
C14_NoTornReads ==
    [][\A t \in Active :
           /\ (pc[t] = "read_license" /\ pc'[t] = "read_license") =>
                  current_license' = current_license
           /\ (pc[t] = "read_license" /\ pc'[t] = "idle") =>
                  /\ current_license \in {None} \cup {Some(l) : l \in InputLicenses}
                  /\ call'[t].ret =
                         Some(QueryAnswer(call[t].op, call[t].arg, current_license))]_vars

\* C14 witness: a query holds its read lock on a held License while the other
\* thread, about to store another License, waits for the write lock.
C14_Witness ==
    /\ pc["t1"] = "read_license"
    /\ current_license # None
    /\ pc["t2"] = "lock_license"
    /\ call["t2"].op \in StoreOps
    /\ call["t2"].ret[1].license # current_license

\* The answer has a body that is no JSON: nothing can be parsed from it.
Unparsable(outcome) ==
    outcome.kind = "resp" /\ outcome.body # None /\ Text(outcome) = Garbage

\* C15 as stated: deactivate's request returns true only on a 2xx answer, and
\* a failure to send, a non-2xx status or an answer that cannot be parsed
\* gives false.
C15_AsStated ==
    \A t \in Active :
        (Returned(t) /\ call[t].op = "deactivate" /\ call[t].resp # None) =>
            LET o == call[t].resp[1]
            IN  /\ call[t].ret = Some(TRUE) => (o.kind = "resp" /\ IsSuccess(o.status))
                /\ (o.kind = "err" \/ ~IsSuccess(o.status) \/ Unparsable(o)) =>
                       call[t].ret = Some(FALSE)

\* C15 amended: deactivate's request gives true exactly when the request was
\* answered with a 2xx status, whatever the body, and false otherwise; the
\* caller gets a boolean and nothing else.
C15_DeactivateTransport ==
    \A t \in Active :
        (Returned(t) /\ call[t].op = "deactivate" /\ call[t].resp # None) =>
            LET o == call[t].resp[1]
            IN  /\ call[t].ret \in {Some(TRUE), Some(FALSE)}
                /\ call[t].ret = Some(TRUE) <=>
                       (o.kind = "resp" /\ o.status >= 200 /\ o.status <= 299)

\* C15 witness: a deactivate has returned true on a 2xx answer whose body is
\* no JSON.
C15_Witness ==
    /\ Returned("t1") /\ call["t1"].op = "deactivate"
    /\ call["t1"].resp # None
    /\ Unparsable(call["t1"].resp[1])
    /\ call["t1"].ret = Some(TRUE)

\* C16: when the last calls of two threads are state-changing calls that
\* both succeeded and both have returned, the store is the whole outcome of
\* one of them: its License with its key, or nothing after a deactivate.
C16_LastWriterWinsWhole ==
    (Returned("t1") /\ Returned("t2") /\ Succeeded(call["t1"]) /\ Succeeded(call["t2"])) =>
        Store \in {Outcome(call["t1"]), Outcome(call["t2"])}

\* C17: a call waiting for its request holds no lock, so a query another
\* thread starts then finds the lock free; the call's steps into and out of
\* the wait leave the store alone, and a query finishing in the meantime
\* answers from the License stored then.
C17_NetworkOutsideLock ==
    /\ [](\A t \in Active :
              pc[t] = "net" =>
                  /\ ~HoldsLock(t)
                  /\ \A u \in Active \ {t} :
                         pc[u] \in {"idle", "net"} => (lic_lock = Free /\ key_lock = Free))
    /\ [][\A t \in Active :
              /\ (pc'[t] # pc[t] /\ "net" \in {pc[t], pc'[t]}) =>
                     (current_license' = current_license /\ license_key' = license_key)
              /\ \A u \in Active \ {t} :
                     (pc[t] = "net" /\ pc'[t] = "net"
                          /\ pc[u] = "read_license" /\ pc'[u] = "idle") =>
                         call'[u].ret =
                             Some(QueryAnswer(call[u].op, call[u].arg, current_license))]_vars

\* C17 witness: a deactivate waits for its request while the other thread's
\* query holds the read lock on the License still held.
C17_Witness ==
    /\ pc["t1"] = "net" /\ call["t1"].op = "deactivate"
    /\ pc["t2"] = "read_license"
    /\ current_license # None

\* C18 as stated: when a deactivate read key K1 beside the License of K1,
\* its request came back with success to a store holding, whole, the License
\* and key K2 that another thread's validate or activate had stored in the
\* meantime, and it comes to clear the License, the License stays.
C18_AsStated ==
    [][\A t \in Active : \A u \in Active \ {t} :
           (/\ call[t].op = "deactivate"
            /\ pc[t] = "write_license" /\ pc'[t] = "lock_key"
            /\ call[t].pre[1].license # None
            /\ call[t].pre[1].license[1].key = call[t].arg
            /\ Returned(u) /\ call[u].op \in {"validate", "activate"}
            /\ Succeeded(call[u])
            /\ call[u].arg # call[t].arg
            /\ call[u].ret[1].license[1].key = call[u].arg
            /\ call[t].back = Some(Outcome(call[u]))
            /\ Store = Outcome(call[u])) =>
               current_license' = current_license]_vars

\* C18 amended: a deactivate whose request succeeded clears whatever is
\* stored when it writes, a License and key of another thread included: its
\* first write leaves no License, its second leaves no key and it returns
\* true.
C18_DeactivateClearsAny ==
    [][\A t \in Active :
           call[t].op = "deactivate" =>
               /\ (pc[t] = "write_license" /\ pc'[t] = "lock_key") =>
                      current_license' = None
               /\ (pc[t] = "write_key" /\ pc'[t] = "idle") =>
                      (license_key' = None /\ call'[t].ret = Some(TRUE))]_vars

\* C18 witness: a deactivate that sent KEY1 has returned true, the other
\* thread's activate of another key has succeeded and returned, and the
\* store is empty.
C18_Witness ==
    /\ Returned("t1") /\ call["t1"].op = "deactivate"
    /\ call["t1"].ret = Some(TRUE) /\ call["t1"].arg = "KEY1"
    /\ Returned("t2") /\ call["t2"].op = "activate"
    /\ Succeeded(call["t2"]) /\ call["t2"].arg # "KEY1"
    /\ current_license = None /\ license_key = None

\* Thread t is inside a call.
Busy(t) == pc[t] \notin {"idle", "panicked"}

\* C19: no thread waits for a lock, or for its request, while it holds a
\* lock; and with fair scheduling and requests that come back, every call
\* that was begun returns.
C19_DeadlockFreedom ==
    /\ [](\A t \in Threads :
              pc[t] \in {"lock_license", "lock_key", "net"} => ~HoldsLock(t))
    /\ \A t \in Threads : Busy(t) ~> ~Busy(t)

\* C19 witness: both threads wait for the same write lock while nobody holds
\* it, one to store a License and one to clear it.
C19_Witness ==
    /\ pc["t1"] = "lock_key" /\ pc["t2"] = "lock_key"
    /\ call["t1"].op = "deactivate"
    /\ call["t2"].op \in StoreOps
    /\ key_lock = Free

\* C20 as stated: in a single-threaded run, whenever a License is held
\* between calls, the stored key is the key field of that License.
C20_AsStated ==
    ((\A t \in Active : pc[t] = "idle") /\ current_license # None) =>
        license_key = Some(current_license[1].key)

\* C20 amended: in a single-threaded run, after a successful start_trial the
\* stored key is the key field of the held License; after a successful
\* validate(k) or activate(k) it is k, and so equals the key field of the
\* held License exactly when the server's License carries k.
C20_StoredKeyMatches ==
    \A t \in Active :
        (Returned(t) /\ call[t].op \in StoreOps /\ Succeeded(call[t])) =>
            LET L == call[t].ret[1].license[1]
            IN  /\ current_license = Some(L)
                /\ license_key # None
                /\ (license_key = Some(current_license[1].key)) <=>
                       (call[t].op = "start_trial" \/ L.key = call[t].arg)

\* C20 witness: an activate with a machine name has succeeded with a License
\* whose key field is not the key asked about.
C20_Witness ==
    /\ Returned("t1") /\ call["t1"].op = "activate"
    /\ call["t1"].name # None
    /\ Succeeded(call["t1"])
    /\ current_license # None
    /\ current_license[1].key # call["t1"].arg
    /\ license_key = Some(call["t1"].arg)


\* The places of the features of key k in the held license's list.
HeldPlaces(k) ==
    IF current_license = None THEN {}
    ELSE {i \in DOMAIN current_license[1].features :
              current_license[1].features[i].key = k}

\* The first feature of key k in the held license's list.
FirstHeld(k) ==
    current_license[1].features[
        CHOOSE i \in HeldPlaces(k) : \A j \in HeldPlaces(k) : i <= j]

\* get_feature's answer r is a Feature that is enabled.
IsEnabledFeature(r) == r # None /\ r[1].enabled

\* C21 as stated: in a single-threaded run, has_feature(k) has answered true
\* exactly when get_feature(k) on the same store gives an enabled Feature,
\* and get_feature(k) has given an enabled Feature exactly when
\* has_feature(k) on the same store is true.
C21_AsStated ==
    \A t \in Active :
        /\ (Returned(t) /\ call[t].op = "has_feature") =>
               (call[t].ret = Some(TRUE)
                    <=> IsEnabledFeature(ClientGetFeature(current_license, call[t].arg)))
        /\ (Returned(t) /\ call[t].op = "get_feature") =>
               (IsEnabledFeature(call[t].ret[1])
                    <=> ClientHasFeature(current_license, call[t].arg))

\* C21 amended: whenever get_feature(k) gives an enabled Feature,
\* has_feature(k) is true; the converse holds when the first Feature of key k
\* is enabled or no Feature of key k is; when the first Feature of key k is
\* disabled and a later one enabled, has_feature(k) is true and get_feature(k)
\* gives the disabled one.
C21_FeatureQueriesAgree ==
    \A t \in Active :
        (Returned(t) /\ call[t].op \in {"has_feature", "get_feature"}) =>
            LET k == call[t].arg
                has == IF call[t].op = "has_feature" THEN call[t].ret[1]
                       ELSE ClientHasFeature(current_license, k)
                got == IF call[t].op = "get_feature" THEN call[t].ret[1]
                       ELSE ClientGetFeature(current_license, k)
                laterEnabled == \E i \in HeldPlaces(k) :
                                    current_license[1].features[i].enabled
            IN  /\ IsEnabledFeature(got) => has
                /\ has <=> laterEnabled
                /\ (has /\ ~IsEnabledFeature(got)) =>
                       (got = Some(Feat(k, FALSE)) /\ ~FirstHeld(k).enabled /\ laterEnabled)

\* C21 witness: has_feature has answered true for a key whose first Feature
\* in the held list is disabled and whose second is enabled.
C21_Witness ==
    /\ Returned("t1") /\ call["t1"].op = "has_feature"
    /\ call["t1"].ret = Some(TRUE)
    /\ HeldPlaces(call["t1"].arg) # {}
    /\ ~FirstHeld(call["t1"].arg).enabled

\* C22: in a single-threaded run, get_feature(k) answers absent when no
\* License is held or no Feature of the held License has key k, and otherwise
\* the first Feature of key k in list order, enabled or not.
C22_GetFeatureFirstMatch ==
    \A t \in Active :
        (Returned(t) /\ call[t].op = "get_feature") =>
            call[t].ret[1] =
                IF HeldPlaces(call[t].arg) = {} THEN None
                ELSE Some(FirstHeld(call[t].arg))

\* C22 witness: get_feature has answered with a disabled Feature that comes
\* first in a list holding an enabled Feature of the same key after it.
C22_Witness ==
    /\ Returned("t1") /\ call["t1"].op = "get_feature"
    /\ current_license # None
    /\ current_license[1].features = <<Feat("premium", FALSE), Feat("premium", TRUE)>>
    /\ call["t1"].arg = "premium"
    /\ call["t1"].ret = Some(Some(Feat("premium", FALSE)))


\* C23: validate, activate and activate_with_name never panic, whatever the
\* key and the machine name: no call ends in a panic, and every such call
\* that has returned has returned a LicenseResult.
C23_NeverPanics ==
    \A t \in Active :
        /\ pc[t] # "panicked"
        /\ (Returned(t) /\ call[t].op \in {"validate", "activate"}) =>
               call[t].ret # None


\* The body the checkout endpoint is documented to answer with: a JSON
\* object with nothing but checkoutUrl, sessionId and error, each optional.
DocumentedCheckoutBody(b) ==
    /\ b.json
    /\ b.success = "absent"
    /\ b.tiersShape = "absent"
    /\ b.errorShape \in {"absent", "string"}

\* start_purchase after a transport failure or a non-2xx answer: success is
\* false, there is an error message, and no URL and no session id.
CheckoutFailureShape ==
    \A t \in Active :
        (/\ Returned(t)
         /\ call[t].op = "start_purchase"
         /\ (call[t].resp[1].kind = "err" \/ ~IsSuccess(call[t].resp[1].status))) =>
            /\ ~call[t].ret[1].success
            /\ call[t].ret[1].error # None
            /\ call[t].ret[1].checkout_url = None
            /\ call[t].ret[1].session_id = None

\* C24: a 2xx answer to start_purchase with a body of the documented shape
\* gives a CheckoutResult with success = true and the body's checkoutUrl and
\* sessionId; a transport failure or a non-2xx answer gives success = false,
\* an error message, no URL and no session id.
C24_CheckoutShape ==
    /\ CheckoutFailureShape
    /\ \A t \in Active :
           (/\ Returned(t)
            /\ call[t].op = "start_purchase"
            /\ call[t].resp[1].kind = "resp"
            /\ IsSuccess(call[t].resp[1].status)
            /\ call[t].resp[1].body # None
            /\ DocumentedCheckoutBody(Text(call[t].resp[1]))) =>
               /\ call[t].ret[1].success
               /\ call[t].ret[1].checkout_url = Text(call[t].resp[1]).checkoutUrl
               /\ call[t].ret[1].session_id = Text(call[t].resp[1]).sessionId

\* The queries among the read-only calls.
QueryOps == ReadOnlyOps \ {"machine_id", "get_tiers", "start_purchase"}

\* During and after a read-only call the pair is the one the call found and
\* the one the present run of read-only calls began with, and a query
\* answers from that pair.
ReadOnlyRunKeepsStore ==
    \A t \in Active :
        (call[t].op \in ReadOnlyOps) =>
            /\ call[t].pre = Some(Store)
            /\ call[t].since = Some(Store)
            /\ (Returned(t) /\ call[t].op \in QueryOps) =>
                   call[t].ret =
                       Some(QueryAnswer(call[t].op, call[t].arg, call[t].since[1].license))

\* A step of a read-only call leaves the pair as it was.
ReadOnlyStepKeepsStore ==
    \A t \in Active :
        (call'[t].op \in ReadOnlyOps) =>
            /\ current_license' = current_license
            /\ license_key' = license_key

\* C25: has_feature, require_feature, get_feature, license, status,
\* is_licensed, is_trial, machine_id, get_tiers and start_purchase leave the
\* stored pair unchanged, whatever is stored and whatever the server
\* answers, so that the queries of one run of such calls all answer from the
\* same pair: two identical queries of the run give the same answer.
C25_ReadOnlyFrame == []ReadOnlyRunKeepsStore /\ [][ReadOnlyStepKeepsStore]_vars

\* start_purchase returned a successful CheckoutResult while a License was
\* held, within a run of read-only calls that began with that License.
C25_Witness ==
    /\ Returned("t1")
    /\ call["t1"].op = "start_purchase"
    /\ call["t1"].ret[1].success
    /\ call["t1"].ret[1].checkout_url # None
    /\ current_license # None
    /\ license_key # None
    /\ call["t1"].since = Some(Store)
====
